---- MODULE Spec2Model ----
(***************************************************************************)
(* A model of pdssp-labtools' PSUP harvesting functions                    *)
(* (src/labtools/ias/psup.py) and of the OMEGA cube STAC transformer       *)
(* (src/labtools/ias/transformers/omega_cube.py).                          *)
(*                                                                         *)
(* The file system is the state of the harvesting functions: the output    *)
(* directory, the source-collection document in it and the data/ directory *)
(* beside it.  The transformer's methods are pure: their arguments are     *)
(* drawn in the initial state and each call records what it returned.      *)
(***************************************************************************)
EXTENDS Integers, Sequences, FiniteSets, TLC

VARIABLES
    dirExists,      \* psup.py: output_dir exists
    doc,            \* psup.py: content of <output_dir>/<basename>.json, or NoDoc
    dataDirExists,  \* psup.py: <output_dir>/data exists
    files,          \* names of the files in <output_dir>/data
    lastCall,       \* what the last download_collection call got and did
    lastRead,       \* what the last read_products_metadata call returned
    lastDl,         \* what the last download_data_files call did
    metadata,       \* omega_cube.py: the metadata argument of the transformer's methods
    definition,     \* omega_cube.py: the definition argument, or NoDefinition
    data_path,      \* omega_cube.py: the data_path argument, or None
    extractor,      \* what labtools.ias.netcdf does on the auxiliary file
    lastT           \* what the last call of a transformer method returned or raised

harvestVars == <<dirExists, doc, lastCall, lastRead>>
assetVars == <<dataDirExists, files, lastDl>>
transformerVars == <<metadata, definition, data_path, extractor, lastT>>

----------------------------------------------------------------------------
(* Bounds of the model. *)

\* Longest record sequence the modelled service returns.
MaxRecords == 2
\* Largest small record count the modelled service reports.
MaxTotal == 2

----------------------------------------------------------------------------
(* Values. *)

None == "None"

\* A download URL, split at its '/' separators.
UrlX == <<"psup", "cubes", "ORB0018_6.nc">>
UrlY == <<"psup", "cubes", "ORB0041_2.nc">>

\* Raw product records as the service returns them: RecBad lacks a required
\* field of the schema.
RecX == [id |-> "p1", download_nc |-> UrlX]
RecY == [id |-> "p2", download_nc |-> UrlY]
RecBad == [id |-> "p3"]
RawRecords == {RecX, RecY, RecBad}

SCHEMA_NAME == "OMEGA_CUBE"
RegisteredSchemas == {SCHEMA_NAME}
SchemaNames == {SCHEMA_NAME, "UNKNOWN"}

CollectionIds == {"omega_cubes"}

SeqsUpTo(S, n) == UNION {[1..k -> S] : k \in 0..n}

NoDoc == [absent |-> TRUE]

\* A document left by an earlier run.
OldDoc == [collection |-> [id |-> "old", schema_name |-> SCHEMA_NAME, n_products |-> 1],
           products |-> <<RecY>>]

----------------------------------------------------------------------------
(* The remote service: what it answers to the two requests of one call. *)

max_n_products == 13000

Totals == 0..MaxTotal

\* kind: "count_not_ok"  the limit=0 request is not OK
\*       "no_total"      its response has no 'total' key
\*       "records_not_ok" the limit=total request is not OK
\*       "no_data"       its response has no 'data' key
\*       "full"          both responses are well formed
Answers ==
    {[kind |-> k, total |-> 0, data |-> <<>>] : k \in {"count_not_ok", "no_total"}}
    \cup {[kind |-> k, total |-> t, data |-> <<>>] :
              k \in {"records_not_ok", "no_data"}, t \in Totals}
    \cup {[kind |-> "full", total |-> t, data |-> d] :
              t \in Totals, d \in SeqsUpTo(RawRecords, MaxRecords)}
    \cup {[kind |-> k, total |-> max_n_products + 1, data |-> <<>>] :
              k \in {"records_not_ok", "no_data", "full"}}

----------------------------------------------------------------------------
(* psup.py: download_collection *)

\* The test of line 23 with the sense of overwrite inverted.
ShortCircuitsFlipped(docv, overwrite) == docv # NoDoc /\ overwrite

\* line 23: the document exists and overwrite is not asked for.
ShortCircuits(docv, overwrite) == docv # NoDoc /\ ~overwrite

Outcome(result, error, nqueries, warned, docv, dirv) ==
    [result |-> result, error |-> error, nqueries |-> nqueries, warned |-> warned,
     doc |-> docv, dir |-> dirv]

\* The document with its records in the reverse order.
products_dict_reversed(collection_id, metadata_schema, n_products, records) ==
    [collection |-> [id |-> collection_id, schema_name |-> metadata_schema,
                     n_products |-> n_products],
     products |-> [i \in 1..Len(records) |-> records[Len(records) + 1 - i]]]

\* lines 55-62: the document written.
products_dict(collection_id, metadata_schema, n_products, records) ==
    [collection |-> [id |-> collection_id, schema_name |-> metadata_schema,
                     n_products |-> n_products],
     products |-> records]

\* The whole call on the file system (docv, dirv): what it raises or returns,
\* the requests it issued, and the file system it leaves.
\*   - line 37 and line 47 build an Exception and do not raise it: the call
\*     goes on, and fails where it reads the name that was never bound
\*     (n_products at line 41, before the request is issued; records at
\*     line 61, after line 52 created the directory).
download_collection(docv, dirv, collection_id, metadata_schema, overwrite, ans) ==
    IF ShortCircuits(docv, overwrite)
    THEN Outcome("skipped", "none", 0, FALSE, docv, dirv)
    ELSE IF ans.kind = "count_not_ok"
    THEN Outcome("raised", "InvalidPSUPResponse", 1, FALSE, docv, dirv)
    ELSE IF ans.kind = "no_total"
    THEN Outcome("raised", "UnboundLocalError", 1, FALSE, docv, dirv)
    ELSE LET warned == ans.total > max_n_products IN
         IF ans.kind = "records_not_ok"
         THEN Outcome("raised", "InvalidPSUPResponse", 2, warned, docv, dirv)
         ELSE IF ans.kind = "no_data"
         THEN Outcome("raised", "UnboundLocalError", 2, warned, docv, TRUE)
         ELSE Outcome("written", "none", 2, warned,
                      products_dict(collection_id, metadata_schema, ans.total, ans.data),
                      TRUE)

----------------------------------------------------------------------------
(* psup.py: read_collection_metadata, read_products_metadata *)

\* labtools.schemas.factory.create_metadata_object(product_dict, schema_name,
\* 'item'): the typed record, or a failure when the schema is not registered
\* or the record does not validate against it.
Parses(product_dict, schema_name) ==
    schema_name \in RegisteredSchemas /\ "download_nc" \in DOMAIN product_dict

create_metadata_object(product_dict, schema_name, object_type) ==
    [schema_name |-> schema_name, object_type |-> object_type, fields |-> product_dict]

\* lines 68-84 on a document that exists: the 'collection' block.
read_collection_metadata(docv) == docv.collection

RECURSIVE ParseAll(_, _)
\* lines 102-110: the typed records of a sequence of raw records, in order;
\* nothing (ok = FALSE) as soon as one of them fails.
ParseAll(products_dicts, schema_name) ==
    IF products_dicts = <<>> THEN [ok |-> TRUE, products |-> <<>>]
    ELSE IF ~Parses(Head(products_dicts), schema_name)
    THEN [ok |-> FALSE, products |-> <<>>]
    ELSE LET rest == ParseAll(Tail(products_dicts), schema_name) IN
         IF ~rest.ok THEN rest
         ELSE [ok |-> TRUE,
               products |-> <<create_metadata_object(Head(products_dicts), schema_name,
                                                     "item")>> \o rest.products]

\* lines 87-112: "raised" when the file cannot be opened, "none" when a record
\* fails to parse (line 110 returns nothing), else the typed records.
read_products_metadata(docv) ==
    IF docv = NoDoc
    THEN [result |-> "raised", products |-> <<>>]
    ELSE LET parsed == ParseAll(docv.products, read_collection_metadata(docv).schema_name) IN
         IF ~parsed.ok THEN [result |-> "none", products |-> <<>>]
         ELSE [result |-> "ok", products |-> parsed.products]

----------------------------------------------------------------------------
(* psup.py: download_data_files *)

MAX_N_PRODUCTS == 10

\* The download URL of a typed record (its schema class's get_download_url).
get_download_url(product_metadata) == product_metadata.fields.download_nc

\* line 131: url.split('/')[-1]
product_fname(url) == url[Len(url)]

\* A path below the output directory, as its segments; '' has none.
EmptyPath == <<>>
product_path(fname) == <<"data", fname>>

\* lines 143-152 for one product, on the names present in data/: the try block
\* of lines 144-146 holds the print of 'DONE' alone (the urlretrieve call of
\* line 145 is commented out), so nothing is fetched, nothing in it fails, and
\* the handler of lines 147-150 never runs.
\* acc: the names in data/, and per product handled so far what line 143 found,
\* what was printed, the value product_path ended with, and the URLs fetched.
HandleProduct(acc, product_metadata, overwrite) ==
    LET url == get_download_url(product_metadata)
        fname == product_fname(url)
        exists == fname \in acc.files
    IN  IF ~exists \/ overwrite
        THEN [acc EXCEPT !.existed = Append(@, exists),
                         !.reports = Append(@, "DONE"),
                         !.paths = Append(@, product_path(fname))]
        ELSE [acc EXCEPT !.existed = Append(@, exists),
                         !.reports = Append(@, "EXISTS"),
                         !.paths = Append(@, product_path(fname))]

RECURSIVE HandleAll(_, _, _)
\* lines 124-152: the products in the order of the sequence.
HandleAll(acc, products, overwrite) ==
    IF products = <<>> THEN acc
    ELSE HandleAll(HandleProduct(acc, Head(products), overwrite), Tail(products), overwrite)

\* lines 117-122: the subset handled.
Subset(products) ==
    SubSeq(products, 1, IF Len(products) < MAX_N_PRODUCTS THEN Len(products)
                        ELSE MAX_N_PRODUCTS)

\* The whole call on the document docv and the data/ directory.
\*   "raised"       read_products_metadata raised (the document cannot be opened)
\*   "no_products"  it returned nothing, or no record: lines 120-122
\*   "done"         the loop ran over the subset
download_data_files(docv, dataDirv, filesv, overwrite) ==
    LET rd == read_products_metadata(docv)
        empty == [files |-> filesv, existed |-> <<>>, reports |-> <<>>,
                  paths |-> <<>>, fetched |-> <<>>]
    IN  IF rd.result = "raised"
        THEN [result |-> "raised", dataDir |-> dataDirv, subset |-> <<>>, acc |-> empty]
        ELSE IF rd.result = "none" \/ rd.products = <<>>
        THEN [result |-> "no_products", dataDir |-> dataDirv, subset |-> <<>>, acc |-> empty]
        ELSE [result |-> "done", dataDir |-> TRUE, subset |-> Subset(rd.products),
              acc |-> HandleAll(empty, Subset(rd.products), overwrite)]

----------------------------------------------------------------------------
(* omega_cube.py: what a method call yields *)

Returned(v) == [status |-> "returned", error |-> "none", null |-> FALSE, value |-> v]
\* A return of None.
ReturnedNone == [status |-> "returned", error |-> "none", null |-> TRUE, value |-> <<>>]
Raised(e) == [status |-> "raised", error |-> e, null |-> FALSE, value |-> <<>>]

\* The empty dict.
EmptyMapping == <<>>

\* labtools.schemas.factory.get_object_type: the tag of the metadata object.
get_object_type(md) == md.object_type

NoDefinition == [absent |-> TRUE]

\* pydantic's .dict(exclude_none=True): the fields whose value is not None.
dict_exclude_none(obj) == [k \in {f \in DOMAIN obj : obj[f] # None} |-> obj[k]]

----------------------------------------------------------------------------
(* omega_cube.py: the extension accessors, lines 172-238 *)

\* lines 172-181
get_ssys_properties(md, def) ==
    IF get_object_type(md) = "item"
    THEN Returned("ssys:targets" :> <<"Mars">>)
    ELSE Raised("InvalidModelObjectTypeError")

\* get_ssys_fields returning the item's fixed target list, as get_ssys_properties does.
get_ssys_fields_item_targets(md, def) ==
    IF get_object_type(md) = "item"
    THEN Returned("ssys:targets" :> <<"Mars">>)
    ELSE IF get_object_type(md) = "collection"
    THEN IF def = NoDefinition THEN Raised("AttributeError")
         ELSE Returned("ssys:targets" :> def.ssys_targets)
    ELSE Raised("InvalidModelObjectTypeError")

\* lines 183-191
get_ssys_fields(md, def) ==
    IF get_object_type(md) = "item"
    THEN Returned(EmptyMapping)
    ELSE IF get_object_type(md) = "collection"
    THEN IF def = NoDefinition THEN Raised("AttributeError")
         ELSE Returned("ssys:targets" :> def.ssys_targets)
    ELSE Raised("InvalidModelObjectTypeError")

\* lines 193-198
get_sci_properties(md, def) ==
    IF get_object_type(md) = "item"
    THEN ReturnedNone
    ELSE Raised("InvalidModelObjectTypeError")

\* lines 205-207: each publication as a plain dict.
sci_publications_dicts(pubs) == [i \in 1..Len(pubs) |-> dict_exclude_none(pubs[i])]

\* lines 201-218
get_sci_fields(md, def) ==
    IF get_object_type(md) = "collection"
    THEN IF def = NoDefinition THEN Raised("AttributeError")
         ELSE Returned("sci:publications" :> sci_publications_dicts(def.sci_publications))
    ELSE IF get_object_type(md) = "item"
    THEN Returned(EmptyMapping)
    ELSE Raised("InvalidModelObjectTypeError")

\* lines 220-225
get_processing_properties(md, def) ==
    IF get_object_type(md) = "item"
    THEN ReturnedNone
    ELSE Raised("InvalidModelObjectTypeError")

\* get_processing_fields without the item branch of lines 234-235.
get_processing_fields_collection_only(md, def) ==
    IF get_object_type(md) = "collection"
    THEN IF def = NoDefinition THEN Raised("AttributeError")
         ELSE Returned("processing:level" :> def.processing_level)
    ELSE Raised("InvalidModelObjectTypeError")

\* lines 228-238
get_processing_fields(md, def) ==
    IF get_object_type(md) = "collection"
    THEN IF def = NoDefinition THEN Raised("AttributeError")
         ELSE Returned("processing:level" :> def.processing_level)
    ELSE IF get_object_type(md) = "item"
    THEN Returned(EmptyMapping)
    ELSE Raised("InvalidModelObjectTypeError")

----------------------------------------------------------------------------
(* omega_cube.py: get_geometry, get_bbox, get_properties *)

\* An OMEGA_Cube_Record, with the fields the transformer reads.
OmegaRecord(url, orbit, west, east) ==
    [object_type |-> "item", download_nc |-> url, download_sav |-> url,
     orbit_number |-> orbit, cube_number |-> 6, data_quality_id |-> 3,
     martian_year |-> 26, pointing_mode |-> "NADIR", l_channel_ok |-> 1,
     vis_channel_ok |-> 1, trimmed_orbit_number |-> orbit, solar_longitude |-> 332,
     westernmost_longitude |-> west, easternmost_longitude |-> east,
     minimum_latitude |-> -10, maximum_latitude |-> 10]

\* `if data_path:`: neither None nor the empty string.
Truthy(dp) == dp # None /\ dp # ""

\* lines 101-102, 158-159: <data_path>/data/<name of download_nc> exists.
netcdf_file_exists(md, dataDirv, filesv) ==
    dataDirv /\ product_fname(md.download_nc) \in filesv

\* lines 96-110
get_geometry(md, def, dp, dataDirv, filesv, ext) ==
    IF Truthy(dp)
    THEN IF netcdf_file_exists(md, dataDirv, filesv)
         THEN IF ext.footprint.outcome = "geometry"
              THEN Returned(ext.footprint.value)
              ELSE ReturnedNone
         ELSE ReturnedNone
    ELSE ReturnedNone

\* (lon + 180) % 360 - 180 with the remainder of C's fmod, which has the sign
\* of the dividend.
NormLonTruncated(lon) ==
    LET x == lon + 180 IN
    (IF x >= 0 THEN x % 360 ELSE 0 - ((0 - x) % 360)) - 180

\* lines 117, 119: Python's % with a positive modulus is in [0, modulus).
NormLon(lon) == ((lon + 180) % 360) - 180

\* lines 115-121
get_bbox(md, def) ==
    Returned(<<NormLon(md.westernmost_longitude), md.minimum_latitude,
               NormLon(md.easternmost_longitude), md.maximum_latitude>>)

\* lines 134-154
properties_dict(md, now) ==
    [datetime |-> now, created |-> None, start_datetime |-> None, end_datetime |-> None,
     mission |-> "Mars Express", platform |-> "MEX", instruments |-> <<"OMEGA">>,
     gsd |-> None,
     orbit_number |-> md.orbit_number, cube_number |-> md.cube_number,
     data_quality_id |-> md.data_quality_id, martian_year |-> md.martian_year,
     pointing_mode |-> md.pointing_mode, l_channel_ok |-> md.l_channel_ok,
     c_channel_ok |-> md.vis_channel_ok,
     trimmed_orbit_number |-> md.trimmed_orbit_number,
     solar_longitude |-> md.solar_longitude]

\* The extracted dict in place of the properties.
DictReplace(d, u) == u

\* line 163: dict.update
DictUpdate(d, u) ==
    [k \in DOMAIN d \cup DOMAIN u |-> IF k \in DOMAIN u THEN u[k] ELSE d[k]]

\* lines 132-170
get_properties(md, def, dp, dataDirv, filesv, ext, now) ==
    LET base == properties_dict(md, now) IN
    IF Truthy(dp)
    THEN IF netcdf_file_exists(md, dataDirv, filesv)
         THEN IF ext.properties.outcome = "dict"
              THEN Returned(DictUpdate(base, ext.properties.value))
              ELSE Returned(base)
         ELSE Returned(base)
    ELSE Returned(base)

----------------------------------------------------------------------------
(* Bounds and inputs of the state machines. *)

\* Longest product sequence of a document given to download_data_files.
MaxProducts == 11
\* Largest magnitude of a record's westernmost longitude, in degrees.
MaxLon == 365
\* Largest extent in longitude of a record, in degrees.
MaxExtent == 2

NoCall == [made |-> FALSE]
NoRead == [made |-> FALSE]
NoDl == [made |-> FALSE]
NoT == [op |-> "none"]

FileNames == {product_fname(UrlX), product_fname(UrlY)}

\* The documents given to download_data_files: any sequence of valid records,
\* and short sequences that hold an invalid one.
AssetDocs ==
    {products_dict("omega_cubes", SCHEMA_NAME, Len(p), p) :
        p \in SeqsUpTo({RecX, RecY}, MaxProducts) \cup SeqsUpTo(RawRecords, 2)}
    \cup {products_dict("omega_cubes", "UNKNOWN", 1, <<RecX>>)}

Pub1 == [citation |-> "Bibring et al. 2004", doi |-> "10.1126/science.1108806"]
Pub2 == [citation |-> "OMEGA cubes release notes", doi |-> None]

Definitions ==
    [id : {"mex_omega_cubes"},
     ssys_targets : {<<"Mars">>, <<"Mars", "Phobos">>},
     sci_publications : {<<>>, <<Pub1>>, <<Pub1, Pub2>>},
     processing_level : {"L2", None}]

\* What the calls of the extension accessors are made on: a product record,
\* a PSUP_Collection, and a catalog object.
ExtMetadata ==
    {OmegaRecord(UrlX, 18, 0, 0),
     [object_type |-> "collection", id |-> "omega_cubes", schema_name |-> SCHEMA_NAME,
      n_products |-> 2],
     [object_type |-> "catalog", id |-> "psup"]}

GeomA == [type |-> "Polygon", coordinates |-> <<<<0, 0>>, <<1, 0>>, <<1, 1>>, <<0, 0>>>>]

Footprints ==
    {[outcome |-> "raises", value |-> <<>>], [outcome |-> "none", value |-> <<>>],
     [outcome |-> "geometry", value |-> GeomA]}

\* The keys get_netcdf_properties may define: two of the base properties and
\* one that is not among them.
ExtractedKeys == {"gsd", "start_datetime", "nc_title"}
ExtractedValue == [gsd |-> "350m", start_datetime |-> "2004-01-14T00:04:07",
                   nc_title |-> "OMEGA observation"]

ExtractedProperties ==
    {[outcome |-> "raises", value |-> <<>>]}
    \cup {[outcome |-> "dict", value |-> [k \in S |-> ExtractedValue[k]]] :
              S \in SUBSET ExtractedKeys}

IdleExtractor == [footprint |-> [outcome |-> "none", value |-> <<>>],
                  properties |-> [outcome |-> "dict", value |-> <<>>]]

Times == {"2026-01-01T00:00:00", "2026-01-01T00:00:01"}

DataPaths == {None, "", "source"}

----------------------------------------------------------------------------
(* Initial states. *)

IdleHarvest ==
    /\ lastCall = NoCall
    /\ lastRead = NoRead

IdleAssets ==
    /\ dataDirExists = FALSE
    /\ files = {}
    /\ lastDl = NoDl

IdleTransformer ==
    /\ metadata = OmegaRecord(UrlX, 18, 0, 0)
    /\ definition = NoDefinition
    /\ data_path = None
    /\ extractor = IdleExtractor
    /\ lastT = NoT

\* Before a harvest: no output directory, an empty one, or one that holds a
\* document of an earlier run.
InitHarvest ==
    /\ dirExists \in BOOLEAN
    /\ doc \in (IF dirExists THEN {NoDoc, OldDoc} ELSE {NoDoc})
    /\ IdleHarvest /\ IdleAssets /\ IdleTransformer

\* Before an asset download: a document, or none, and a data/ directory that
\* holds any of the product files, or none.
InitAssets ==
    /\ dirExists \in BOOLEAN
    /\ doc \in (IF dirExists THEN AssetDocs \cup {NoDoc} ELSE {NoDoc})
    /\ dataDirExists \in (IF dirExists THEN BOOLEAN ELSE {FALSE})
    /\ files \in (IF dataDirExists THEN SUBSET FileNames ELSE {{}})
    /\ lastDl = NoDl
    /\ IdleHarvest /\ IdleTransformer

InitExtensions ==
    /\ dirExists = FALSE /\ doc = NoDoc
    /\ IdleHarvest /\ IdleAssets
    /\ metadata \in ExtMetadata
    /\ definition \in Definitions \cup {NoDefinition}
    /\ data_path = None
    /\ extractor = IdleExtractor
    /\ lastT = NoT

InitAuxiliary ==
    /\ dirExists = TRUE /\ doc = NoDoc
    /\ IdleHarvest
    /\ dataDirExists \in BOOLEAN
    /\ files \in (IF dataDirExists THEN SUBSET {product_fname(UrlX)} ELSE {{}})
    /\ lastDl = NoDl
    /\ metadata \in {OmegaRecord(u, o, 0, 0) : u \in {UrlX, UrlY}, o \in {18, 41}}
    /\ definition = NoDefinition
    /\ data_path \in DataPaths
    /\ extractor \in [footprint : Footprints, properties : ExtractedProperties]
    /\ lastT = NoT

InitBbox ==
    /\ dirExists = FALSE /\ doc = NoDoc
    /\ IdleHarvest /\ IdleAssets
    /\ metadata \in {OmegaRecord(UrlX, 18, w, w + e) :
                        w \in (0 - MaxLon)..MaxLon, e \in 0..MaxExtent}
    /\ definition = NoDefinition
    /\ data_path = None
    /\ extractor = IdleExtractor
    /\ lastT = NoT

----------------------------------------------------------------------------
(* Actions: one per function or method called. *)

vars == <<dirExists, doc, dataDirExists, files, lastCall, lastRead, lastDl,
          metadata, definition, data_path, extractor, lastT>>

\* The service's answer is an input of a call only when the call asks it.
Unasked == [kind |-> "unasked"]

\* What a call leaves to be observed: its arguments, what it returned or
\* raised, and the requests it issued.  The answer is kept in full for a call
\* that wrote the document, and by its kind otherwise.
Observed(collection_id, metadata_schema, overwrite, ans, out) ==
    [made |-> TRUE, collection_id |-> collection_id,
     metadata_schema |-> metadata_schema, overwrite |-> overwrite,
     answer |-> IF out.result = "written" THEN ans ELSE [kind |-> ans.kind],
     result |-> out.result, error |-> out.error,
     nqueries |-> out.nqueries, warned |-> out.warned]

\* One call of download_collection on the output location.
DownloadCollection ==
    \E collection_id \in CollectionIds, metadata_schema \in SchemaNames,
       overwrite \in BOOLEAN :
      \E ans \in (IF ShortCircuits(doc, overwrite) THEN {Unasked} ELSE Answers) :
        LET out == download_collection(doc, dirExists, collection_id, metadata_schema,
                                       overwrite, ans) IN
        /\ doc' = out.doc
        /\ dirExists' = out.dir
        /\ lastCall' = Observed(collection_id, metadata_schema, overwrite, ans, out)
        /\ lastRead' = NoRead
        /\ UNCHANGED assetVars
        /\ UNCHANGED transformerVars

\* One call of read_products_metadata on the document.
ReadProductsMetadata ==
    /\ lastRead' = [made |-> TRUE] @@ read_products_metadata(doc)
    /\ UNCHANGED <<dirExists, doc, lastCall>>
    /\ UNCHANGED assetVars
    /\ UNCHANGED transformerVars

\* One call of download_data_files on the document.
DownloadDataFiles ==
    \E overwrite \in BOOLEAN :
        LET out == download_data_files(doc, dataDirExists, files, overwrite) IN
        /\ dataDirExists' = out.dataDir
        /\ files' = out.acc.files
        /\ lastDl' = [made |-> TRUE, overwrite |-> overwrite, result |-> out.result,
                      subset |-> out.subset, existed |-> out.acc.existed,
                      reports |-> out.acc.reports, paths |-> out.acc.paths,
                      fetched |-> out.acc.fetched]
        /\ UNCHANGED harvestVars
        /\ UNCHANGED transformerVars

\* A call of a transformer method records the method and what it yielded.
Called(op, out) ==
    /\ lastT' = [op |-> op, out |-> out]
    /\ UNCHANGED <<metadata, definition, data_path, extractor>>
    /\ UNCHANGED harvestVars
    /\ UNCHANGED assetVars

GetSsysProperties == Called("get_ssys_properties", get_ssys_properties(metadata, definition))
GetSsysFields == Called("get_ssys_fields", get_ssys_fields(metadata, definition))
GetSciProperties == Called("get_sci_properties", get_sci_properties(metadata, definition))
GetSciFields == Called("get_sci_fields", get_sci_fields(metadata, definition))
GetProcessingProperties ==
    Called("get_processing_properties", get_processing_properties(metadata, definition))
GetProcessingFields ==
    Called("get_processing_fields", get_processing_fields(metadata, definition))

GetGeometry ==
    Called("get_geometry",
           get_geometry(metadata, definition, data_path, dataDirExists, files, extractor))

GetProperties ==
    \E now \in Times :
        Called("get_properties",
               [now |-> now] @@ get_properties(metadata, definition, data_path,
                                               dataDirExists, files, extractor, now))

GetBbox == Called("get_bbox", get_bbox(metadata, definition))

----------------------------------------------------------------------------
(* Specifications. *)

NextHarvest == DownloadCollection \/ ReadProductsMetadata
SpecHarvest == InitHarvest /\ [][NextHarvest]_vars

NextAssets == DownloadDataFiles
SpecAssets == InitAssets /\ [][NextAssets]_vars

NextExtensions ==
    \/ GetSsysProperties \/ GetSsysFields
    \/ GetSciProperties \/ GetSciFields
    \/ GetProcessingProperties \/ GetProcessingFields
SpecExtensions == InitExtensions /\ [][NextExtensions]_vars

NextAuxiliary == GetGeometry \/ GetProperties
SpecAuxiliary == InitAuxiliary /\ [][NextAuxiliary]_vars

NextBbox == GetBbox
SpecBbox == InitBbox /\ [][NextBbox]_vars

----------------------------------------------------------------------------
(* Claims on download_collection and read_products_metadata (SpecHarvest). *)

\* A step that is a call of download_collection.
CallStep == lastCall'.made /\ lastRead' = NoRead

\* The call of the step neither asked the service nor touched the document.
Silent == lastCall'.nqueries = 0 /\ doc' = doc

\* C1, as stated: a call with overwrite=False that finds the document issues no
\* query and leaves the document unchanged, and in a sequence of calls with
\* overwrite=False no call after the first queries the service or writes the
\* document.
C1_Original ==
    [][(CallStep /\ ~lastCall'.overwrite) =>
          /\ (doc # NoDoc => Silent)
          /\ ((lastCall.made /\ ~lastCall.overwrite) => Silent)]_vars

\* C1, amended: a call with overwrite=False that finds the document returns
\* without a query and leaves the file system unchanged, and in a sequence of
\* calls with overwrite=False no call that follows one that did not fail queries
\* the service or writes the document.
C1_ShortCircuit ==
    [][(CallStep /\ ~lastCall'.overwrite) =>
          /\ (doc # NoDoc =>
                 /\ Silent
                 /\ lastCall'.result = "skipped"
                 /\ dirExists' = dirExists)
          /\ ((lastCall.made /\ ~lastCall.overwrite /\ lastCall.result # "raised")
                 => Silent)]_vars

\* A call short-circuited on a document that a call of this run wrote.
C1_Witness ==
    /\ lastCall.made /\ lastCall.result = "skipped"
    /\ doc # NoDoc /\ doc # OldDoc

MalformedKinds == {"count_not_ok", "no_total", "records_not_ok", "no_data"}

\* C2: in each of the four cases (count request not OK, no 'total', records
\* request not OK, no 'data') the call fails with the malformed-response error
\* itself.
C2_MalformedResponseError ==
    (lastCall.made /\ lastCall.answer.kind \in MalformedKinds) =>
        (lastCall.result = "raised" /\ lastCall.error = "InvalidPSUPResponse")

\* C3: a call that fails leaves the file system as it was.
C3_FailureRetainsNothing ==
    [][(CallStep /\ lastCall'.result = "raised") =>
          (doc' = doc /\ dirExists' = dirExists)]_vars

\* The service reported as many records as it returned, and all of them parse
\* against the schema the call named.
Harvested(call) ==
    /\ call.made /\ call.result = "written"
    /\ Len(call.answer.data) = call.answer.total
    /\ call.metadata_schema \in RegisteredSchemas
    /\ \A i \in 1..Len(call.answer.data) : "download_nc" \in DOMAIN call.answer.data[i]

\* C4: after such a call the document holds {id, schema_name, n_products = N}
\* and the N records in the service's order, and read_products_metadata on it
\* yields the N typed records in that order (none, without error, for N = 0).
C4_RoundTrip ==
    Harvested(lastCall) =>
        LET N == lastCall.answer.total
            data == lastCall.answer.data
        IN  /\ doc # NoDoc
            /\ doc.collection = [id |-> lastCall.collection_id,
                                 schema_name |-> lastCall.metadata_schema,
                                 n_products |-> N]
            /\ Len(doc.products) = N
            /\ \A i \in 1..N : doc.products[i] = data[i]
            /\ lastRead.made =>
                  /\ lastRead.result = "ok"
                  /\ Len(lastRead.products) = N
                  /\ \A i \in 1..N :
                        lastRead.products[i] =
                            [schema_name |-> lastCall.metadata_schema,
                             object_type |-> "item", fields |-> data[i]]

\* Two distinct records were harvested and read back.
C4_Witness ==
    /\ Harvested(lastCall)
    /\ lastCall.answer.data = <<RecX, RecY>>
    /\ lastRead.made /\ Len(lastRead.products) = 2

----------------------------------------------------------------------------
(* Claims on download_data_files (SpecAssets). *)

\* Line 143 found product i of the subset in need of a fetch.
Needed(i) == ~lastDl.existed[i] \/ lastDl.overwrite

FnameOf(i) == product_fname(lastDl.subset[i].fields.download_nc)

\* C5: every product of the subset whose path does not exist, or with overwrite,
\* is fetched into data/<final segment of its URL>, and the file is there after
\* the call; any other is not fetched and reported "EXISTS".
C5_FetchedWhenNeeded ==
    (lastDl.made /\ lastDl.result = "done") =>
        \A i \in 1..Len(lastDl.subset) :
            IF Needed(i)
            THEN /\ lastDl.subset[i].fields.download_nc \in
                        {lastDl.fetched[j] : j \in 1..Len(lastDl.fetched)}
                 /\ (lastDl.paths[i] # EmptyPath => FnameOf(i) \in files)
            ELSE /\ lastDl.reports[i] = "EXISTS"
                 /\ lastDl.subset[i].fields.download_nc \notin
                        {lastDl.fetched[j] : j \in 1..Len(lastDl.fetched)}

\* C6: the products of the subset are handled in order, each of them whatever
\* happened to the ones before, and a product whose download did not bring its
\* file has its path marked empty.
C6_FailureIsolation ==
    (lastDl.made /\ lastDl.result = "done") =>
        /\ Len(lastDl.reports) = Len(lastDl.subset)
        /\ \A i \in 1..Len(lastDl.subset) :
              (Needed(i) /\ FnameOf(i) \notin files) => lastDl.paths[i] = EmptyPath

----------------------------------------------------------------------------
(* Claims on the extension accessors (SpecExtensions). *)

\* The call returned the mapping v.
ReturnedMapping(out, v) ==
    /\ out.status = "returned" /\ ~out.null
    /\ DOMAIN out.value = DOMAIN v
    /\ \A k \in DOMAIN v : out.value[k] = v[k]

ReturnedNothing(out) == out.status = "returned" /\ out.null

RaisedInvalidType(out) ==
    out.status = "raised" /\ out.error = "InvalidModelObjectTypeError"

IsItem == metadata.object_type = "item"
IsCatalog == metadata.object_type = "catalog"
\* A collection, with the definition the collection branches read.
IsCollection == metadata.object_type = "collection" /\ definition # NoDefinition

\* A publication as plain data: its fields that are set.
PlainPublication(p) == IF p.doi = None THEN [citation |-> p.citation] ELSE p

TargetsOf(def) == "ssys:targets" :> def.ssys_targets
PublicationsOf(def) ==
    "sci:publications" :>
        [i \in 1..Len(def.sci_publications) |-> PlainPublication(def.sci_publications[i])]
LevelOf(def) == "processing:level" :> def.processing_level

CollectionOnly == {"get_processing_fields", "get_sci_fields"}

\* C7, as stated: get_processing_fields and get_sci_fields raise the
\* invalid-object-type error on an item, and return a non-empty mapping on a
\* collection.
C7_Original ==
    lastT.op \in CollectionOnly =>
        /\ IsItem => RaisedInvalidType(lastT.out)
        /\ IsCollection =>
              (lastT.out.status = "returned" /\ ~lastT.out.null
               /\ DOMAIN lastT.out.value # {})

\* C7, amended: on an item they return the empty mapping and raise nothing, on
\* a collection they return a non-empty mapping, and the invalid-object-type
\* error is what they raise on a catalog.
C7_ItemGivesEmptyMapping ==
    lastT.op \in CollectionOnly =>
        /\ IsItem => ReturnedMapping(lastT.out, EmptyMapping)
        /\ IsCollection =>
              (lastT.out.status = "returned" /\ ~lastT.out.null
               /\ DOMAIN lastT.out.value # {})
        /\ IsCatalog => RaisedInvalidType(lastT.out)

\* get_processing_fields was called on an item and returned.
C7_Witness ==
    lastT.op = "get_processing_fields" /\ IsItem /\ lastT.out.status = "returned"

\* C8, as stated: both accessors of a group accept item and collection and
\* agree: ssys gives the fixed target list on an item and the definition's on
\* a collection; sci and processing give nothing on an item and the
\* publications or the level on a collection; all fail on a catalog.
C8_Original ==
    /\ lastT.op \in {"get_ssys_properties", "get_ssys_fields"} =>
          /\ IsItem => ReturnedMapping(lastT.out, "ssys:targets" :> <<"Mars">>)
          /\ IsCollection => ReturnedMapping(lastT.out, TargetsOf(definition))
          /\ IsCatalog => RaisedInvalidType(lastT.out)
    /\ lastT.op \in {"get_sci_properties", "get_sci_fields"} =>
          /\ IsItem => (ReturnedNothing(lastT.out)
                        \/ ReturnedMapping(lastT.out, EmptyMapping))
          /\ IsCollection => ReturnedMapping(lastT.out, PublicationsOf(definition))
          /\ IsCatalog => RaisedInvalidType(lastT.out)
    /\ lastT.op \in {"get_processing_properties", "get_processing_fields"} =>
          /\ IsItem => (ReturnedNothing(lastT.out)
                        \/ ReturnedMapping(lastT.out, EmptyMapping))
          /\ IsCollection => ReturnedMapping(lastT.out, LevelOf(definition))
          /\ IsCatalog => RaisedInvalidType(lastT.out)

\* C8, amended: the three *_properties accessors accept an item alone (the
\* fixed target list for ssys, None for sci and processing) and fail with the
\* invalid-object-type error on a collection and on a catalog; the three
\* *_fields accessors return the empty mapping on an item, the definition's
\* targets, publications (as plain data) or level on a collection, and fail
\* with that error on a catalog.
C8_AccessorTable ==
    /\ lastT.op = "get_ssys_properties" =>
          IF IsItem THEN ReturnedMapping(lastT.out, "ssys:targets" :> <<"Mars">>)
          ELSE RaisedInvalidType(lastT.out)
    /\ lastT.op \in {"get_sci_properties", "get_processing_properties"} =>
          IF IsItem THEN ReturnedNothing(lastT.out) ELSE RaisedInvalidType(lastT.out)
    /\ lastT.op \in {"get_ssys_fields", "get_sci_fields", "get_processing_fields"} =>
          /\ IsItem => ReturnedMapping(lastT.out, EmptyMapping)
          /\ IsCatalog => RaisedInvalidType(lastT.out)
    /\ (lastT.op = "get_ssys_fields" /\ IsCollection) =>
          ReturnedMapping(lastT.out, TargetsOf(definition))
    /\ (lastT.op = "get_sci_fields" /\ IsCollection) =>
          ReturnedMapping(lastT.out, PublicationsOf(definition))
    /\ (lastT.op = "get_processing_fields" /\ IsCollection) =>
          ReturnedMapping(lastT.out, LevelOf(definition))

\* get_ssys_properties was called on a collection with a definition, where
\* get_ssys_fields returns the targets, and raised.
C8_Witness ==
    lastT.op = "get_ssys_properties" /\ IsCollection /\ lastT.out.status = "raised"

----------------------------------------------------------------------------
(* Claims on get_geometry and get_properties (SpecAuxiliary). *)

FilePresent == dataDirExists /\ metadata.download_nc[Len(metadata.download_nc)] \in files
Supplied == data_path # None /\ data_path # ""

----------------------------------------------------------------------------
(* Claims on get_bbox (SpecBbox). *)

West == metadata.westernmost_longitude
East == metadata.easternmost_longitude

\* C10, as stated: the west and east values of the bbox are in (-180, 180].
C10_Original ==
    lastT.op = "get_bbox" =>
        /\ lastT.out.value[1] > -180 /\ lastT.out.value[1] <= 180
        /\ lastT.out.value[3] > -180 /\ lastT.out.value[3] <= 180

\* C10, amended: for integer longitudes the west and east values of the bbox
\* are in [-180, 180); a longitude of 180 or of -180 gives -180.
C10_HalfOpenFromBelow ==
    lastT.op = "get_bbox" =>
        /\ lastT.out.value[1] >= -180 /\ lastT.out.value[1] < 180
        /\ lastT.out.value[3] >= -180 /\ lastT.out.value[3] < 180
        /\ West \in {180, -180} => lastT.out.value[1] = -180
        /\ East \in {180, -180} => lastT.out.value[3] = -180

\* The bbox of a record whose westernmost longitude is 180.
C10_Witness ==
    lastT.op = "get_bbox" /\ West = 180 /\ lastT.out.value[1] = -180

====
